---- MODULE Spec2Model ----
(***************************************************************************)
(* Statement lowering of clang/CodeGen/CGStmt.cpp: a statement tree is     *)
(* turned into LLVM basic blocks.  The recursion of EmitStmt is modelled   *)
(* with an explicit stack of frames; one action is one stretch of code     *)
(* between two recursive EmitStmt calls.  The statement tree is the input: *)
(* the kind of each statement is drawn when the dispatcher reaches it, in  *)
(* source order, which yields every tree within the bounds.                *)
(***************************************************************************)
EXTENDS Integers, Sequences, FiniteSets, TLC

\* ---- bounds of the model ----
NumLabels == 2      \* labels of the function
MaxStmts  == 4      \* statement nodes of the lowered tree
MaxDepth  == 3      \* nesting depth of compound / label / if statements
MaxBody   == 2      \* children of one compound statement

Labels == 1 .. NumLabels
NoBB   == 0         \* the null BasicBlock pointer

VARIABLES
  heap,            \* every BasicBlock ever allocated, by handle: [name, insts]
  BasicBlockList,  \* CurFn->getBasicBlockList(): handles, in insertion order
  InsertBlock,     \* Builder.GetInsertBlock(): the cursor
  LabelMap,        \* LabelMap: label -> handle, NoBB when absent
  erased,          \* handles deleted by eraseFromParent
  DeclRet,         \* CurFuncDecl's return type: "void", "scalar", "aggregate"
  RetTy,           \* CurFn->getFunctionType()->getReturnType(), lowered type
  NDEBUG,          \* the build: TRUE when assert() compiles to nothing
  stack,           \* pending callers of EmitStmt, innermost last
  pc,              \* "EmitStmt": a statement is about to be dispatched,
                   \* "Return": EmitStmt has returned to the frame on top,
                   \* "done": the tree is exhausted, "aborted": assert fired
  budget,          \* statement nodes the tree may still contain
  diags,           \* number of "Unimplemented stmt!" lines printed
  lastOp,          \* history: the routine that ran last
  refs,            \* history: <<label, block, by>> of each goto / label statement
  ifLog,           \* history: one record per if statement lowered
  follows,         \* history: the goto / return the next statement follows
  retLog,          \* history: [blk, operand] of each return lowered
  evals,           \* number of EmitExpr calls made so far
  cursorBy,        \* the routine that set the insertion point last
  visited,         \* history: number of statement nodes dispatched
  phLog,           \* history: blocks opened after a goto / return
  gotoLog,         \* history: [blk, label] of each goto lowered
  lastOpen,        \* history: the EmitBlock call of the last step, if any
  skipped,         \* history: nodes below an unimplemented statement
  hidden           \* labels whose statement lies below an unimplemented one

vars == << heap, BasicBlockList, InsertBlock, LabelMap, erased, DeclRet,
           RetTy, NDEBUG, stack, pc, budget, diags, lastOp, refs, ifLog,
           follows, retLog, evals, cursorBy, visited, phLog, gotoLog,
           lastOpen, skipped, hidden >>

\* ---- instructions and blocks ----

Inst(op, s1, s2, val, ty) ==
  [op |-> op, s1 |-> s1, s2 |-> s2, val |-> val, ty |-> ty]

IsTerminator(i) == i.op \in {"br", "condbr", "ret"}

Block(name) == [name |-> name, insts |-> << >>]

\* The lowering context the routines thread through: block storage, the
\* function's block list, the builder's insertion block, the label table.
Ctx == [heap |-> heap, list |-> BasicBlockList, cur |-> InsertBlock,
        erased |-> erased, labels |-> LabelMap, evals |-> evals,
        by |-> cursorBy]

SetCtx(c) ==
  /\ heap' = c.heap
  /\ BasicBlockList' = c.list
  /\ InsertBlock' = c.cur
  /\ erased' = c.erased
  /\ LabelMap' = c.labels
  /\ evals' = c.evals
  /\ cursorBy' = c.by

\* BasicBlock::getTerminator(): the last instruction when it is a terminator.
HasTerminator(c, b) ==
  /\ c.heap[b].insts # << >>
  /\ IsTerminator(c.heap[b].insts[Len(c.heap[b].insts)])

\* new BasicBlock(name): allocated, not placed in the function.
NewHandle(c) == Len(c.heap) + 1

NewBasicBlock(c, name) == [c EXCEPT !.heap = Append(@, Block(name))]

\* The placeholder made current the way EmitBlock makes a block current: the
\* block left behind gains a fall-through branch, or is dropped when it is an
\* empty anonymous block, unless it ends in a terminator.
OpenPlaceholder_ViaEmitBlock(c) ==
  LET BB == NewHandle(c)
      c0 == NewBasicBlock(c, "")
      LastBB == c.cur
      br == [op |-> "br", s1 |-> BB, s2 |-> NoBB, val |-> "none",
             ty |-> "none"]
      c1 == IF HasTerminator(c0, LastBB)
              THEN c0
              ELSE IF c0.heap[LastBB].insts = << >>
                      /\ c0.heap[LastBB].name = ""
                     THEN [c0 EXCEPT
                             !.list = SelectSeq(@, LAMBDA x : x # LastBB),
                             !.erased = @ \cup {LastBB}]
                     ELSE [c0 EXCEPT !.heap[LastBB].insts = Append(@, br)]
  IN [c1 EXCEPT !.list = Append(@, BB), !.cur = BB, !.by = "EmitBlock"]

\* new BasicBlock("", CurFn) followed by Builder.SetInsertPoint: an anonymous
\* block appended to the function's block list becomes the cursor.
OpenPlaceholder(c) ==
  [NewBasicBlock(c, "") EXCEPT !.list = Append(@, NewHandle(c)),
                               !.cur = NewHandle(c),
                               !.by = "SetInsertPoint"]

\* Builder.Insert: the instruction goes to the end of the insertion block.
Insert(c, i) == [c EXCEPT !.heap[c.cur].insts = Append(@, i)]

CreateBr(c, dest) == Insert(c, Inst("br", dest, NoBB, "none", "none"))

CreateCondBr(c, t, f) == Insert(c, Inst("condbr", t, f, "cond", "none"))

CreateRetVoid(c) == Insert(c, Inst("ret", NoBB, NoBB, "void", "void"))

CreateRet(c, val, ty) == Insert(c, Inst("ret", NoBB, NoBB, val, ty))

\* EmitExpr: the expression collaborator; it may add non-terminator
\* instructions to the insertion block (emits) or none (a constant).
EmitExpr(c, emits) ==
  LET c1 == [c EXCEPT !.evals = @ + 1]
  IN IF emits THEN Insert(c1, Inst("expr", NoBB, NoBB, "none", "none"))
     ELSE c1

\* BasicBlock::eraseFromParent(): unlinked from the block list and deleted.
RECURSIVE Without(_, _)
Without(s, x) ==
  IF s = << >> THEN << >>
  ELSE IF Head(s) = x THEN Without(Tail(s), x)
       ELSE << Head(s) >> \o Without(Tail(s), x)

eraseFromParent(c, b) ==
  [c EXCEPT !.list = Without(@, b), !.erased = @ \cup {b}]

\* Mutants of EmitBlock: no fall-through branch; a branch added after a
\* terminator; the empty placeholder kept; an empty block erased whatever
\* its name.
EmitBlock_NoFallThrough(c, BB) ==
  LET LastBB == c.cur
      c1 == IF ~HasTerminator(c, LastBB)
               /\ c.heap[LastBB].insts = << >> /\ c.heap[LastBB].name = ""
              THEN eraseFromParent(c, LastBB)
              ELSE c
  IN [c1 EXCEPT !.list = Append(@, BB), !.cur = BB, !.by = "EmitBlock"]

EmitBlock_AlwaysBranch(c, BB) ==
  LET LastBB == c.cur
      c1 == IF c.heap[LastBB].insts = << >> /\ c.heap[LastBB].name = ""
              THEN eraseFromParent(c, LastBB)
              ELSE CreateBr(c, BB)
  IN [c1 EXCEPT !.list = Append(@, BB), !.cur = BB, !.by = "EmitBlock"]

EmitBlock_KeepPlaceholder(c, BB) ==
  LET LastBB == c.cur
      c1 == IF HasTerminator(c, LastBB) THEN c ELSE CreateBr(c, BB)
  IN [c1 EXCEPT !.list = Append(@, BB), !.cur = BB, !.by = "EmitBlock"]

EmitBlock_EraseAnyEmpty(c, BB) ==
  LET LastBB == c.cur
      c1 == IF HasTerminator(c, LastBB)
              THEN c
              ELSE IF c.heap[LastBB].insts = << >>
                     THEN eraseFromParent(c, LastBB)
                     ELSE CreateBr(c, BB)
  IN [c1 EXCEPT !.list = Append(@, BB), !.cur = BB, !.by = "EmitBlock"]

\* CodeGenFunction::EmitBlock
EmitBlock(c, BB) ==
  LET LastBB == c.cur
      c1 == IF HasTerminator(c, LastBB)
              THEN c
              ELSE IF c.heap[LastBB].insts = << >> /\ c.heap[LastBB].name = ""
                     THEN eraseFromParent(c, LastBB)
                     ELSE CreateBr(c, BB)
  IN [c1 EXCEPT !.list = Append(@, BB), !.cur = BB, !.by = "EmitBlock"]

\* getBasicBlockForLabel: the label's block, created unplaced on first use.
\* A label's block carries the label's name, so it is never anonymous.
LabelCtx(c, L) ==
  IF c.labels[L] # NoBB THEN c
  ELSE [NewBasicBlock(c, "label") EXCEPT !.labels[L] = NewHandle(c)]

getBasicBlockForLabel(c, L) == LabelCtx(c, L).labels[L]

\* ---- the lowering routines, as functions of the context ----

\* EmitLabelStmt up to its recursive call: fetch the block, make it current.
LabelStmtOpen(c, L) == EmitBlock(LabelCtx(c, L), getBasicBlockForLabel(c, L))

\* Mutants of GotoStmt: no block opened after the branch; the label table
\* bypassed.
GotoStmt_NoPlaceholder(c, L) ==
  CreateBr(LabelCtx(c, L), getBasicBlockForLabel(c, L))

GotoStmt_FreshTarget(c, L) ==
  OpenPlaceholder(CreateBr(NewBasicBlock(c, "label"), NewHandle(c)))

\* CodeGenFunction::EmitGotoStmt
GotoStmt(c, L) ==
  OpenPlaceholder(CreateBr(LabelCtx(c, L), getBasicBlockForLabel(c, L)))

\* EmitIfStmt: the blocks it allocates, in allocation order.
IfContBlock(c) == NewHandle(c)
IfThenBlock(c) == NewHandle(c) + 1
IfElseBlock(c, hasElse) == IF hasElse THEN NewHandle(c) + 2 ELSE IfContBlock(c)

\* Mutants of IfStmtOpen: the branch targets swapped; an else block always.
IfStmtOpen_SwappedTargets(c, emits, hasElse) ==
  LET c0 == EmitExpr(c, emits)
      c1 == NewBasicBlock(c0, "ifend")
      c2 == NewBasicBlock(c1, "ifthen")
      c3 == IF hasElse THEN NewBasicBlock(c2, "ifelse") ELSE c2
      c4 == CreateCondBr(c3, IfElseBlock(c0, hasElse), IfThenBlock(c0))
  IN EmitBlock(c4, IfThenBlock(c0))

IfStmtOpen_AlwaysElseBlock(c, emits, hasElse) ==
  LET c0 == EmitExpr(c, emits)
      c1 == NewBasicBlock(c0, "ifend")
      c2 == NewBasicBlock(c1, "ifthen")
      c3 == NewBasicBlock(c2, "ifelse")
      c4 == CreateCondBr(c3, IfThenBlock(c0), IfElseBlock(c0, hasElse))
  IN EmitBlock(c4, IfThenBlock(c0))

\* EmitIfStmt up to the recursive call on the then statement.
IfStmtOpen(c, emits, hasElse) ==
  LET c0 == EmitExpr(c, emits)
      c1 == NewBasicBlock(c0, "ifend")
      c2 == NewBasicBlock(c1, "ifthen")
      c3 == IF hasElse THEN NewBasicBlock(c2, "ifelse") ELSE c2
      c4 == CreateCondBr(c3, IfThenBlock(c0), IfElseBlock(c0, hasElse))
  IN EmitBlock(c4, IfThenBlock(c0))

\* EmitIfStmt up to its first EmitBlock call: condition, blocks, branch.
IfStmtBranch(c, emits, hasElse) ==
  LET c0 == EmitExpr(c, emits)
      c1 == NewBasicBlock(c0, "ifend")
      c2 == NewBasicBlock(c1, "ifthen")
      c3 == IF hasElse THEN NewBasicBlock(c2, "ifelse") ELSE c2
  IN CreateCondBr(c3, IfThenBlock(c0), IfElseBlock(c0, hasElse))

\* Mutant of IfStmtAfterThen: the branch to the continue block is left out.
IfStmtAfterThen_NoBranch(c, ContBlock, ElseBlock, hasElse) ==
  EmitBlock(c, IF hasElse THEN ElseBlock ELSE ContBlock)

\* EmitIfStmt from the return of the then statement to the recursive call on
\* the else statement, or to the end when there is no else.
IfStmtAfterThen(c, ContBlock, ElseBlock, hasElse) ==
  EmitBlock(CreateBr(c, ContBlock), IF hasElse THEN ElseBlock ELSE ContBlock)

\* EmitIfStmt from the return of the else statement to the end.
IfStmtAfterElse(c, ContBlock) == EmitBlock(CreateBr(c, ContBlock), ContBlock)

isVoidType == DeclRet = "void"

\* EmitReturnStmt's assert(0 && "FIXME: aggregate return unimp") is reached.
ReturnAsserts(isVoid, operand) == ~isVoid /\ operand = "aggregate"

\* Mutant of ReturnTerminator: the lowered return type is not looked at.
ReturnTerminator_UndefAlways(c, operand, isVoid, retTy) ==
  IF isVoid THEN CreateRetVoid(c)
  ELSE IF operand = "none" THEN CreateRet(c, "undef", retTy)
  ELSE IF operand = "scalar" THEN CreateRet(c, "scalar", "scalar")
  ELSE c

\* EmitReturnStmt: the terminator chosen from the function's type and the
\* operand ("none", "scalar" or "aggregate").  Past the assert, compiled out,
\* nothing is emitted.
ReturnTerminator(c, operand, isVoid, retTy) ==
  IF isVoid THEN CreateRetVoid(c)
  ELSE IF operand = "none"
         THEN IF retTy = "void" THEN CreateRetVoid(c)
              ELSE CreateRet(c, "undef", retTy)
  ELSE IF operand = "scalar" THEN CreateRet(c, "scalar", "scalar")
  ELSE c

\* Mutant of ReturnStmt: in a void function the operand is not evaluated.
ReturnStmt_VoidSkipsOperand(c, operand, emits, isVoid, retTy) ==
  OpenPlaceholder(
    ReturnTerminator(IF operand # "none" /\ ~isVoid THEN EmitExpr(c, emits)
                     ELSE c,
                     operand, isVoid, retTy))

\* CodeGenFunction::EmitReturnStmt, when it runs to its end.
ReturnStmt(c, operand, emits, isVoid, retTy) ==
  OpenPlaceholder(
    ReturnTerminator(IF operand # "none" THEN EmitExpr(c, emits) ELSE c,
                     operand, isVoid, retTy))

\* ---- the state machine ----

Frame(kind, n, ContBlock, ElseBlock, hasElse, id) ==
  [kind |-> kind, n |-> n, ContBlock |-> ContBlock, ElseBlock |-> ElseBlock,
   hasElse |-> hasElse, id |-> id]

Top == stack[Len(stack)]
Pop == SubSeq(stack, 1, Len(stack) - 1)

NoFollow == [term |-> NoBB, ph |-> NoBB]

\* History of an EmitBlock call: the block that was current, with its
\* instructions and name as the call found them, and the block passed.
OpenRec(c, BB) ==
  [prev |-> c.cur, before |-> c.heap[c.cur].insts,
   name |-> c.heap[c.cur].name, BB |-> BB]

NoOpen == [prev |-> NoBB, before |-> << >>, name |-> "", BB |-> NoBB]

\* The function's types as the declaration and type lowering supply them: a
\* void function, a scalar one, and an aggregate one whose lowered return
\* type is void (struct return) or the aggregate itself.
FnTypes == { << "void", "void" >>, << "scalar", "scalar" >>,
             << "aggregate", "void" >>, << "aggregate", "aggregate" >> }

\* GenerateCode has made the named "entry" block and set the cursor to it.
Init ==
  /\ heap = << Block("entry") >>
  /\ BasicBlockList = << 1 >>
  /\ InsertBlock = 1
  /\ LabelMap = [L \in Labels |-> NoBB]
  /\ erased = {}
  /\ \E t \in FnTypes : DeclRet = t[1] /\ RetTy = t[2]
  /\ NDEBUG \in BOOLEAN
  /\ stack = << >>
  /\ pc = "EmitStmt"
  /\ budget = MaxStmts - 1
  /\ diags = 0
  /\ lastOp = "none"
  /\ refs = {}
  /\ ifLog = << >>
  /\ follows = NoFollow
  /\ retLog = {}
  /\ evals = 0
  /\ cursorBy = "GenerateCode"
  /\ visited = 0
  /\ phLog = {}
  /\ gotoLog = {}
  /\ lastOpen = NoOpen
  /\ skipped = 0
  /\ hidden = {}

\* History: the statement being dispatched is an arm of the if whose frame
\* is on top; note when an arm is not an expression statement.
NoteArm(kind) ==
  IF stack # << >> /\ Top.kind \in {"ifthen", "ifelse"} /\ kind # "expr"
    THEN [ifLog EXCEPT ![Top.id].armsExpr = FALSE]
    ELSE ifLog

\* What only EmitReturnStmt reads or writes.
Types == UNCHANGED << DeclRet, RetTy, NDEBUG, retLog >>

\* History kept by a step that dispatches a statement (Visit) or does not
\* (NoVisit), that opens no placeholder (NoLog) and calls no EmitBlock.
Visit == visited' = visited + 1 /\ UNCHANGED << skipped, hidden >>
NoVisit == UNCHANGED << visited, skipped, hidden >>
NoLog == UNCHANGED << phLog, gotoLog >>
NoEmitBlock == lastOpen' = NoOpen
NoBuilder == UNCHANGED << evals, cursorBy >>

\* A label has one label statement in the tree; it is placed once lowered.
LabelPlaced(L) ==
  /\ LabelMap[L] # NoBB
  /\ \E i \in 1 .. Len(BasicBlockList) : BasicBlockList[i] = LabelMap[L]

\* EmitStmt, case NullStmtClass.
EmitNullStmt ==
  /\ pc = "EmitStmt"
  /\ pc' = "Return"
  /\ lastOp' = "null"
  /\ Visit /\ NoLog /\ NoEmitBlock /\ NoBuilder
  /\ ifLog' = NoteArm("null")
  /\ follows' = NoFollow
  /\ Types
  /\ UNCHANGED << heap, BasicBlockList, InsertBlock, LabelMap, erased, stack,
                  budget, diags, refs >>

\* EmitStmt, default case, the statement is an expression.
EmitExprStmt(emits) ==
  /\ pc = "EmitStmt"
  /\ SetCtx(EmitExpr(Ctx, emits))
  /\ pc' = "Return"
  /\ lastOp' = "expr"
  /\ Visit /\ NoLog /\ NoEmitBlock
  /\ ifLog' = NoteArm("expr")
  /\ follows' = NoFollow
  /\ Types
  /\ UNCHANGED << stack, budget, diags, refs >>

\* EmitStmt, default case, the statement is no expression: the diagnostic
\* is printed and EmitStmt returns to its caller. The k statements the node
\* holds (the body of a loop, say) are never handed to EmitStmt; H are the
\* labels whose label statement is among them.
EmitUnimplementedStmt(k, H) ==
  /\ pc = "EmitStmt"
  /\ k <= budget
  /\ Cardinality(H) <= k
  /\ \A L \in H : ~LabelPlaced(L) /\ L \notin hidden
  /\ hidden' = hidden \cup H
  /\ budget' = budget - k
  /\ diags' = diags + 1
  /\ pc' = "Return"
  /\ lastOp' = "unimplemented"
  /\ visited' = visited + 1
  /\ skipped' = skipped + k
  /\ NoLog /\ NoEmitBlock /\ NoBuilder
  /\ ifLog' = NoteArm("unimplemented")
  /\ follows' = NoFollow
  /\ Types
  /\ UNCHANGED << heap, BasicBlockList, InsertBlock, LabelMap, erased, stack,
                  refs >>

\* A compound that opens a block of its own for its body.
EmitCompoundStmt_OwnBlock(n) ==
  /\ pc = "EmitStmt"
  /\ Len(stack) < MaxDepth
  /\ n <= budget
  /\ budget' = budget - n
  /\ SetCtx(EmitBlock(NewBasicBlock(Ctx, "block"), NewHandle(Ctx)))
  /\ stack' = Append(stack, Frame("compound", n, NoBB, NoBB, FALSE, 0))
  /\ pc' = "Return"
  /\ lastOp' = "compound"
  /\ Visit /\ NoLog /\ NoEmitBlock
  /\ ifLog' = NoteArm("compound")
  /\ Types
  /\ UNCHANGED << diags, refs, follows >>

\* EmitCompoundStmt is entered on a compound of n children.
EmitCompoundStmt(n) ==
  /\ pc = "EmitStmt"
  /\ Len(stack) < MaxDepth
  /\ n <= budget
  /\ budget' = budget - n
  /\ stack' = Append(stack, Frame("compound", n, NoBB, NoBB, FALSE, 0))
  /\ pc' = "Return"
  /\ lastOp' = "compound"
  /\ Visit /\ NoLog /\ NoEmitBlock /\ NoBuilder
  /\ ifLog' = NoteArm("compound")
  /\ Types
  /\ UNCHANGED << heap, BasicBlockList, InsertBlock, LabelMap, erased, diags,
                  refs, follows >>

\* EmitCompoundStmt's loop: I != E, EmitStmt(*I).
CompoundNext ==
  /\ pc = "Return"
  /\ stack # << >>
  /\ Top.kind = "compound"
  /\ Top.n > 0
  /\ stack' = [stack EXCEPT ![Len(stack)].n = @ - 1]
  /\ pc' = "EmitStmt"
  /\ lastOp' = "compoundNext"
  /\ NoVisit /\ NoLog /\ NoEmitBlock /\ NoBuilder
  /\ Types
  /\ UNCHANGED << heap, BasicBlockList, InsertBlock, LabelMap, erased, budget,
                  diags, refs, ifLog, follows >>

\* A loop that may stop before I == E, leaving children unlowered.
CompoundEnd_Early ==
  /\ pc = "Return"
  /\ stack # << >>
  /\ Top.kind = "compound"
  /\ Top.n >= 0
  /\ stack' = Pop
  /\ lastOp' = "compoundEnd"
  /\ NoVisit /\ NoLog /\ NoEmitBlock /\ NoBuilder
  /\ Types
  /\ UNCHANGED << heap, BasicBlockList, InsertBlock, LabelMap, erased, pc,
                  budget, diags, refs, ifLog, follows >>

\* EmitCompoundStmt's loop ends: I == E.
CompoundEnd ==
  /\ pc = "Return"
  /\ stack # << >>
  /\ Top.kind = "compound"
  /\ Top.n = 0
  /\ stack' = Pop
  /\ lastOp' = "compoundEnd"
  /\ NoVisit /\ NoLog /\ NoEmitBlock /\ NoBuilder
  /\ Types
  /\ UNCHANGED << heap, BasicBlockList, InsertBlock, LabelMap, erased, pc,
                  budget, diags, refs, ifLog, follows >>

\* EmitLabelStmt up to EmitStmt(S.getSubStmt()).
EmitLabelStmt(L) ==
  /\ pc = "EmitStmt"
  /\ Len(stack) < MaxDepth
  /\ budget >= 1
  /\ ~LabelPlaced(L)
  /\ L \notin hidden
  /\ SetCtx(LabelStmtOpen(Ctx, L))
  /\ refs' = refs \cup { << L, InsertBlock', "label" >> }
  /\ budget' = budget - 1
  /\ stack' = Append(stack, Frame("label", 0, NoBB, NoBB, FALSE, 0))
  /\ lastOp' = "label"
  /\ Visit /\ NoLog
  /\ lastOpen' = OpenRec(LabelCtx(Ctx, L), getBasicBlockForLabel(Ctx, L))
  /\ ifLog' = NoteArm("label")
  /\ follows' = NoFollow
  /\ Types
  /\ UNCHANGED << pc, diags >>

\* EmitLabelStmt returns after its sub-statement.
LabelEnd ==
  /\ pc = "Return"
  /\ stack # << >>
  /\ Top.kind = "label"
  /\ stack' = Pop
  /\ lastOp' = "labelEnd"
  /\ NoVisit /\ NoLog /\ NoEmitBlock /\ NoBuilder
  /\ Types
  /\ UNCHANGED << heap, BasicBlockList, InsertBlock, LabelMap, erased, pc,
                  budget, diags, refs, ifLog, follows >>

\* EmitGotoStmt.
EmitGotoStmt(L) ==
  /\ pc = "EmitStmt"
  /\ SetCtx(GotoStmt(Ctx, L))
  /\ refs' = refs \cup
       { << L, heap'[InsertBlock].insts[Len(heap'[InsertBlock].insts)].s1,
            IF LabelPlaced(L) THEN "backward" ELSE "forward" >> }
  /\ pc' = "Return"
  /\ lastOp' = "goto"
  /\ Visit /\ NoEmitBlock
  /\ phLog' = phLog \cup {InsertBlock'}
  /\ gotoLog' = gotoLog \cup {[blk |-> InsertBlock, label |-> L]}
  /\ ifLog' = NoteArm("goto")
  /\ follows' = [term |-> InsertBlock, ph |-> InsertBlock']
  /\ Types
  /\ UNCHANGED << stack, budget, diags >>

IfRecord(cond, thenBB, hasElse, len0, heap0, created) ==
  [cond |-> cond, heap0 |-> heap0, thenBB |-> thenBB, elseBB |-> NoBB, contBB |-> NoBB,
   hasElse |-> hasElse, thenEnd |-> NoBB, elseEnd |-> NoBB, len0 |-> len0,
   created |-> created, armsExpr |-> TRUE, done |-> FALSE, grew |-> 0]

\* EmitIfStmt up to EmitStmt(S.getThen()).
EmitIfStmt(emits, hasElse) ==
  /\ pc = "EmitStmt"
  /\ Len(stack) < MaxDepth
  /\ budget >= (IF hasElse THEN 2 ELSE 1)
  /\ SetCtx(IfStmtOpen(Ctx, emits, hasElse))
  /\ budget' = budget - (IF hasElse THEN 2 ELSE 1)
  /\ stack' = Append(stack,
       Frame("ifthen", 0, IfContBlock(Ctx), IfElseBlock(Ctx, hasElse),
             hasElse, Len(ifLog) + 1))
  /\ ifLog' = Append(NoteArm("if"),
       IfRecord(InsertBlock, InsertBlock', hasElse, Len(BasicBlockList),
                Len(heap), Len(heap') - Len(heap)))
  /\ lastOp' = "if"
  /\ Visit /\ NoLog
  /\ lastOpen' = OpenRec(IfStmtBranch(Ctx, emits, hasElse), IfThenBlock(Ctx))
  /\ follows' = NoFollow
  /\ Types
  /\ UNCHANGED << pc, diags, refs >>

\* EmitIfStmt after the then statement, an else statement follows.
IfAfterThenElse ==
  /\ pc = "Return"
  /\ stack # << >>
  /\ Top.kind = "ifthen"
  /\ Top.hasElse
  /\ SetCtx(IfStmtAfterThen(Ctx, Top.ContBlock, Top.ElseBlock, TRUE))
  /\ stack' = [stack EXCEPT ![Len(stack)].kind = "ifelse"]
  /\ pc' = "EmitStmt"
  /\ ifLog' = [ifLog EXCEPT ![Top.id].thenEnd = InsertBlock,
                            ![Top.id].elseBB = InsertBlock']
  /\ lastOp' = "ifElse"
  /\ NoVisit /\ NoLog
  /\ lastOpen' = OpenRec(CreateBr(Ctx, Top.ContBlock), Top.ElseBlock)
  /\ follows' = NoFollow
  /\ Types
  /\ UNCHANGED << budget, diags, refs >>

\* EmitIfStmt after the then statement, no else: it runs to its end.
IfAfterThenEnd ==
  /\ pc = "Return"
  /\ stack # << >>
  /\ Top.kind = "ifthen"
  /\ ~Top.hasElse
  /\ SetCtx(IfStmtAfterThen(Ctx, Top.ContBlock, Top.ElseBlock, FALSE))
  /\ stack' = Pop
  /\ ifLog' = [ifLog EXCEPT ![Top.id].thenEnd = InsertBlock,
                            ![Top.id].contBB = InsertBlock',
                            ![Top.id].done = TRUE,
                            ![Top.id].grew = Len(BasicBlockList') - ifLog[Top.id].len0]
  /\ lastOp' = "ifEnd"
  /\ NoVisit /\ NoLog
  /\ lastOpen' = OpenRec(CreateBr(Ctx, Top.ContBlock), Top.ContBlock)
  /\ follows' = NoFollow
  /\ Types
  /\ UNCHANGED << pc, budget, diags, refs >>

\* EmitIfStmt after the else statement, to its end.
IfAfterElse ==
  /\ pc = "Return"
  /\ stack # << >>
  /\ Top.kind = "ifelse"
  /\ SetCtx(IfStmtAfterElse(Ctx, Top.ContBlock))
  /\ stack' = Pop
  /\ ifLog' = [ifLog EXCEPT ![Top.id].elseEnd = InsertBlock,
                            ![Top.id].contBB = InsertBlock',
                            ![Top.id].done = TRUE,
                            ![Top.id].grew = Len(BasicBlockList') - ifLog[Top.id].len0]
  /\ lastOp' = "ifEnd"
  /\ NoVisit /\ NoLog
  /\ lastOpen' = OpenRec(CreateBr(Ctx, Top.ContBlock), Top.ContBlock)
  /\ follows' = NoFollow
  /\ Types
  /\ UNCHANGED << pc, budget, diags, refs >>

Operands == {"none", "scalar", "aggregate"}

\* EmitReturnStmt, running to its end: every case but the assert of a build
\* with assertions.
EmitReturnStmt(operand, emits) ==
  /\ pc = "EmitStmt"
  /\ operand = "none" => ~emits
  /\ ReturnAsserts(isVoidType, operand) => NDEBUG
  /\ SetCtx(ReturnStmt(Ctx, operand, emits, isVoidType, RetTy))
  /\ retLog' = retLog \cup {[blk |-> InsertBlock, operand |-> operand]}
  /\ pc' = "Return"
  /\ lastOp' = "return"
  /\ Visit /\ NoEmitBlock
  /\ phLog' = phLog \cup {InsertBlock'}
  /\ UNCHANGED gotoLog
  /\ ifLog' = NoteArm("return")
  /\ follows' = [term |-> InsertBlock, ph |-> InsertBlock']
  /\ UNCHANGED << DeclRet, RetTy, NDEBUG, stack, budget, diags, refs >>

\* EmitReturnStmt, aggregate operand in a non-void function, assertions on:
\* the operand has been evaluated and assert(0) ends the program.
EmitReturnStmtAssert(emits) ==
  /\ pc = "EmitStmt"
  /\ ReturnAsserts(isVoidType, "aggregate")
  /\ ~NDEBUG
  /\ SetCtx(EmitExpr(Ctx, emits))
  /\ pc' = "aborted"
  /\ lastOp' = "returnAssert"
  /\ Visit /\ NoLog /\ NoEmitBlock
  /\ ifLog' = NoteArm("return")
  /\ follows' = NoFollow
  /\ Types
  /\ UNCHANGED << stack, budget, diags, refs >>

\* The outermost EmitStmt returns to GenerateCode.
Finish ==
  /\ pc = "Return"
  /\ stack = << >>
  /\ pc' = "done"
  /\ lastOp' = "finish"
  /\ NoVisit /\ NoLog /\ NoEmitBlock /\ NoBuilder
  /\ Types
  /\ UNCHANGED << heap, BasicBlockList, InsertBlock, LabelMap, erased, stack,
                  budget, diags, refs, ifLog, follows >>

Next ==
  \/ EmitNullStmt
  \/ \E emits \in BOOLEAN : EmitExprStmt(emits)
  \/ \E k \in 0 .. MaxBody, H \in SUBSET Labels : EmitUnimplementedStmt(k, H)
  \/ \E n \in 0 .. MaxBody : EmitCompoundStmt(n)
  \/ CompoundNext
  \/ CompoundEnd
  \/ \E L \in Labels : EmitLabelStmt(L)
  \/ LabelEnd
  \/ \E L \in Labels : EmitGotoStmt(L)
  \/ \E emits \in BOOLEAN, hasElse \in BOOLEAN : EmitIfStmt(emits, hasElse)
  \/ IfAfterThenElse
  \/ IfAfterThenEnd
  \/ IfAfterElse
  \/ \E operand \in Operands, emits \in BOOLEAN : EmitReturnStmt(operand, emits)
  \/ \E emits \in BOOLEAN : EmitReturnStmtAssert(emits)
  \/ Finish

Spec == Init /\ [][Next]_vars

\* The lowering is one sequential computation: a step that can be taken is
\* taken.
FairSpec == Spec /\ WF_vars(Next)

\* ---- what the claims speak of ----

Insts(b) == heap[b].insts

LastInst(b) == Insts(b)[Len(Insts(b))]

InList(b) == \E i \in 1 .. Len(BasicBlockList) : BasicBlockList[i] = b

ListBlocks == { BasicBlockList[i] : i \in 1 .. Len(BasicBlockList) }

Terminators(b) == { k \in 1 .. Len(Insts(b)) : IsTerminator(Insts(b)[k]) }

\* b ends in exactly one terminator.
EndsInOneTerminator(b) == Terminators(b) = { Len(Insts(b)) } /\ Insts(b) # << >>

Successors(b) ==
  { Insts(b)[k].s1 : k \in 1 .. Len(Insts(b)) } \cup
  { Insts(b)[k].s2 : k \in 1 .. Len(Insts(b)) }

Referenced(b) ==
  \/ \E L \in Labels : LabelMap[L] = b
  \/ \E a \in 1 .. Len(heap) : b \in Successors(a)

\* C1. Terminator invariant: in every block of the function's block list a
\* terminator, if there is one, is the last instruction, so there is at most
\* one per block.
TerminatorInvariant ==
  \A b \in ListBlocks : \A k \in Terminators(b) : k = Len(Insts(b))

\* The tree is lowered and left a branch, a conditional branch and a return.
TerminatorWitness ==
  /\ pc = "done"
  /\ \E a, b, c \in ListBlocks :
       /\ Insts(a) # << >> /\ LastInst(a).op = "br"
       /\ Insts(b) # << >> /\ LastInst(b).op = "condbr"
       /\ Insts(c) # << >> /\ LastInst(c).op = "ret"

\* C2. Label identity stability: every goto and label statement of a label
\* resolved to the block the label table holds for it, forward or backward,
\* and an entry of the label table, once made, is never replaced.
LabelIdentityStable ==
  /\ [](\A r \in refs : LabelMap[r[1]] = r[2])
  /\ [][\A L \in Labels : LabelMap[L] # NoBB => LabelMap'[L] = LabelMap[L]]_vars

\* A label reached by a goto before its statement and by one after it.
LabelIdentityWitness ==
  \E L \in Labels, b \in 1 .. Len(heap) :
    /\ << L, b, "forward" >> \in refs
    /\ << L, b, "label" >> \in refs
    /\ << L, b, "backward" >> \in refs

\* A return with an aggregate operand in a non-void function ran past its
\* compiled-out assert in block b and emitted no terminator there.
AssertFellThrough(b) ==
  /\ ~isVoidType
  /\ [blk |-> b, operand |-> "aggregate"] \in retLog

UnimplementedStopsLowering ==
  [][diags > 0 =>
       UNCHANGED << BasicBlockList, InsertBlock, LabelMap >>]_vars

\* b is an untouched placeholder: empty, anonymous, referenced by nothing.
IsPlaceholder(b) ==
  Insts(b) = << >> /\ heap[b].name = "" /\ ~Referenced(b)

\* C5. Placeholder cleanup: when EmitBlock is called with the cursor on an
\* empty, anonymous, unreferenced block, that block leaves the block list,
\* and no removed block is in the block list afterwards.  (EmitLabelStmt is
\* the caller that can meet an empty cursor block: EmitIfStmt inserts a
\* branch before each of its EmitBlock calls.)
PlaceholderCleanup ==
  /\ [][(lastOp' = "label" /\ IsPlaceholder(InsertBlock)) =>
          (InsertBlock \in erased' /\ InsertBlock \notin
             { BasicBlockList'[i] : i \in 1 .. Len(BasicBlockList') })]_vars
  /\ [](\A b \in erased : ~InList(b))

\* A label statement was lowered right after a goto or return and the body
\* is finished: the placeholder is gone.
PlaceholderCleanupWitness ==
  /\ pc = "done"
  /\ erased # {}
  /\ \A b \in erased : heap[b].name = "" /\ ~InList(b)

\* C6. Dead-code placement: the statement that follows a goto or a return
\* is lowered with the cursor on the anonymous block opened after the
\* terminator; the terminated block is not touched; a label statement moves
\* the code to its label's block, any other statement changes no existing
\* block but that anonymous one; and no terminator has an anonymous block as
\* a successor.
DeadCodePlacement ==
  /\ [][(pc = "EmitStmt" /\ follows.ph # NoBB) =>
          /\ InsertBlock = follows.ph
          /\ follows.ph # follows.term
          /\ heap[follows.ph].name = ""
          /\ heap'[follows.term] = heap[follows.term]
          /\ IF lastOp' = "label"
               THEN \E L \in Labels : InsertBlock' = LabelMap'[L]
               ELSE \A b \in 1 .. Len(heap) :
                      heap'[b] # heap[b] => b = follows.ph]_vars
  /\ [](\A a \in 1 .. Len(heap) : \A b \in Successors(a) \ {NoBB} :
          heap[b].name # "")

\* Dead code was lowered after a terminator: the anonymous block opened by
\* a goto or return holds instructions and is in the block list.
DeadCodeWitness ==
  /\ lastOp \in {"expr", "return", "goto", "if"}
  /\ \E b \in ListBlocks :
       /\ heap[b].name = ""
       /\ Insts(b) # << >>
       /\ \E a \in ListBlocks : a < b /\ EndsInOneTerminator(a)
                                /\ LastInst(a).op \in {"br", "ret"}

IfCount(hasElse) == IF hasElse THEN 3 ELSE 2

\* C7. If-block-count: an if statement allocates exactly 2 blocks without
\* an else and exactly 3 with one, and when its sub-statements are
\* expression statements the block list has grown by exactly that many once
\* the if is lowered.
IfBlockCount ==
  \A i \in 1 .. Len(ifLog) :
    /\ ifLog[i].created = IfCount(ifLog[i].hasElse)
    /\ (ifLog[i].done /\ ifLog[i].armsExpr) =>
         ifLog[i].grew = IfCount(ifLog[i].hasElse)

\* An if with an else, both arms expression statements, is lowered.
IfBlockCountWitness ==
  \E i \in 1 .. Len(ifLog) :
    /\ ifLog[i].done /\ ifLog[i].armsExpr /\ ifLog[i].hasElse
    /\ ifLog[i].grew = 3

\* The blocks if statement r allocated.
IfNew(r) == (r.heap0 + 1) .. (r.heap0 + r.created)

\* C8. The block that was current when an if statement was lowered ends
\* with its only terminator, a conditional branch; the true successor is the
\* new block the then statement is lowered into; the false successor is the
\* new block the else statement is lowered into when there is an else, a
\* block apart from then and continue, and is the continue block when there
\* is none.
IfBranchShape ==
  \A i \in 1 .. Len(ifLog) :
    LET r == ifLog[i] IN
      /\ EndsInOneTerminator(r.cond)
      /\ LastInst(r.cond).op = "condbr"
      /\ LastInst(r.cond).s1 = r.thenBB
      /\ r.thenBB \in IfNew(r)
      /\ LastInst(r.cond).s2 \in IfNew(r) \ {r.thenBB}
      /\ (r.hasElse /\ r.elseBB # NoBB) => LastInst(r.cond).s2 = r.elseBB
      /\ r.done =>
           IF r.hasElse THEN LastInst(r.cond).s2 # r.contBB
                        ELSE LastInst(r.cond).s2 = r.contBB

\* An if with an else and one without have both been lowered to their end.
IfBranchShapeWitness ==
  \E i, j \in 1 .. Len(ifLog) :
    /\ ifLog[i].done /\ ifLog[i].hasElse
    /\ LastInst(ifLog[i].cond).s2 = ifLog[i].elseBB
    /\ ifLog[j].done /\ ~ifLog[j].hasElse
    /\ LastInst(ifLog[j].cond).s2 = ifLog[j].contBB

EndsInBranchTo(b, dest) ==
  /\ EndsInOneTerminator(b)
  /\ LastInst(b).op = "br"
  /\ LastInst(b).s1 = dest

\* C9. Once an if statement is lowered the cursor has been moved to its
\* continue block, the "ifend" block it allocated; the block that was
\* current when the then statement was finished, and likewise the else
\* statement, ends with an unconditional branch to that continue block,
\* whatever the arms hold; a block a return was lowered into keeps that
\* return as its only terminator.
IfJoinsAtContinue ==
  /\ \A i \in 1 .. Len(ifLog) :
       LET r == ifLog[i] IN
         /\ r.thenEnd # NoBB =>
              EndsInBranchTo(r.thenEnd, r.heap0 + 1)
         /\ r.elseEnd # NoBB =>
              EndsInBranchTo(r.elseEnd, r.heap0 + 1)
         /\ r.done =>
              /\ r.contBB = r.heap0 + 1
              /\ heap[r.contBB].name = "ifend"
              /\ InList(r.contBB)
              /\ r.thenEnd # NoBB
              /\ r.hasElse => r.elseEnd # NoBB
  /\ \A q \in retLog :
       ~AssertFellThrough(q.blk) =>
         EndsInOneTerminator(q.blk) /\ LastInst(q.blk).op = "ret"

\* if (x) return 1; return 2; is lowered: the then block holds the first
\* return, the placeholder after it branches to the continue block, and the
\* second return is in the continue block.
IfJoinsWitness ==
  /\ pc = "done"
  /\ \E i \in 1 .. Len(ifLog) :
       LET r == ifLog[i] IN
         /\ r.done /\ ~r.hasElse
         /\ [blk |-> r.thenBB, operand |-> "scalar"] \in retLog
         /\ r.thenEnd # r.thenBB
         /\ [blk |-> r.contBB, operand |-> "scalar"] \in retLog

\* C10, as claimed. In a function declared non-void a return without an
\* operand emits a return of an undefined value of the declared type, never
\* a void return.
ReturnNoOperandIsUndef ==
  \A q \in retLog :
    (q.operand = "none" /\ ~isVoidType) =>
      /\ Insts(q.blk) # << >>
      /\ LastInst(q.blk) = Inst("ret", NoBB, NoBB, "undef", DeclRet)

\* C10, amended. In a function declared non-void a return without an
\* operand emits a return of an undefined value of the function's lowered
\* return type, and a void return when that lowered type is void (struct
\* return); either way it is the block's only terminator.
ReturnNoOperandLowered ==
  \A q \in retLog :
    (q.operand = "none" /\ ~isVoidType) =>
      /\ EndsInOneTerminator(q.blk)
      /\ LastInst(q.blk) =
           IF RetTy = "void" THEN Inst("ret", NoBB, NoBB, "void", "void")
           ELSE Inst("ret", NoBB, NoBB, "undef", RetTy)

\* return; was lowered in a function returning an aggregate whose lowered
\* return type is the aggregate itself.
ReturnNoOperandWitness ==
  /\ DeclRet = "aggregate"
  /\ RetTy = "aggregate"
  /\ \E q \in retLog :
       q.operand = "none" /\ LastInst(q.blk).val = "undef"

VoidRet == Inst("ret", NoBB, NoBB, "void", "void")

AggregateReturnAborts ==
  \A q \in retLog :
    (q.operand = "aggregate" /\ ~isVoidType) =>
      pc = "aborted" /\ InsertBlock = q.blk

\* C13. EmitBlock deletes nothing but anonymous placeholder blocks opened
\* after a goto or a return: a deleted block is anonymous, is no entry of
\* the label table and is the successor of no instruction.
OnlyPlaceholdersErased ==
  \A b \in erased :
    /\ b \in phLog
    /\ heap[b].name = ""
    /\ Insts(b) = << >>
    /\ ~Referenced(b)

\* A placeholder was deleted while the label table and the branches in the
\* block list name blocks that are all still there.
OnlyPlaceholdersWitness ==
  /\ erased # {}
  /\ \E L \in Labels : LabelPlaced(L)
  /\ \E a \in ListBlocks : Successors(a) \ {NoBB} # {}
  /\ \A a \in ListBlocks : Successors(a) \cap erased = {}

\* C14. After goto L the block that was current ends with an unconditional
\* branch to the label table's block for L, its only successor, for forward
\* and backward gotos alike, and no later step changes that block.
GotoBlockSealed ==
  /\ [](\A g \in gotoLog :
          /\ EndsInBranchTo(g.blk, LabelMap[g.label])
          /\ Successors(g.blk) \ {NoBB} = {LabelMap[g.label]})
  /\ [][\A g \in gotoLog : heap'[g.blk] = heap[g.blk]]_vars

\* A forward and a backward goto are lowered and the body is finished.
GotoBlockWitness ==
  /\ pc = "done"
  /\ \E g, h \in gotoLog :
       /\ g.blk # h.blk
       /\ << g.label, LabelMap[g.label], "forward" >> \in refs
       /\ << h.label, LabelMap[h.label], "backward" >> \in refs

\* The statement nodes of the tree drawn so far.
Nodes == MaxStmts - budget

\* C15, as claimed. The lowering of every tree eventually finishes with each
\* statement node visited exactly once.
LoweringFinishes == <>(pc = "done" /\ visited = Nodes)

\* C15. The lowering of every tree stops, finished or aborted by the
\* assertion of an aggregate return; no more statements are visited than the
\* tree has, and a finished lowering has visited exactly once every node that
\* does not lie below an unimplemented statement, with no routine left open.
LoweringStops ==
  /\ <>(pc \in {"done", "aborted"})
  /\ [](visited + skipped <= Nodes)
  /\ [](pc = "done" => visited + skipped = Nodes /\ stack = << >>)

\* A tree of four nodes, a compound among them, is lowered to the end.
LoweringStopsWitness ==
  /\ pc = "done"
  /\ visited = MaxStmts
  /\ skipped = 0
  /\ diags = 0

\* What EmitBlock met in the block that was current at its call.
PrevTerminated ==
  /\ lastOpen.before # << >>
  /\ IsTerminator(lastOpen.before[Len(lastOpen.before)])

PrevPlaceholder == lastOpen.before = << >> /\ lastOpen.name = ""

BranchAdded(b, before, dest) ==
  /\ Len(Insts(b)) = Len(before) + 1
  /\ SubSeq(Insts(b), 1, Len(before)) = before
  /\ LastInst(b).op = "br"
  /\ LastInst(b).s1 = dest

\* C16. A step that calls EmitBlock(BB) leaves BB as the cursor and the last
\* element of the block list; the block prev that was current has gained one
\* unconditional branch to BB exactly when it had no terminator and was not
\* an empty anonymous block, and is unchanged otherwise, in particular when
\* it already ended in a terminator.
OpenBlockEffect ==
  lastOpen # NoOpen =>
    /\ InsertBlock = lastOpen.BB
    /\ BasicBlockList[Len(BasicBlockList)] = lastOpen.BB
    /\ PrevTerminated => Insts(lastOpen.prev) = lastOpen.before
    /\ PrevPlaceholder => Insts(lastOpen.prev) = lastOpen.before
    /\ (~PrevTerminated /\ ~PrevPlaceholder) =>
         BranchAdded(lastOpen.prev, lastOpen.before, lastOpen.BB)

\* A label is opened on an empty block that has a name, the then block of an
\* if statement, which therefore gains the branch and stays in the list.
OpenBlockWitness ==
  /\ lastOp = "label"
  /\ lastOpen.before = << >>
  /\ lastOpen.name = "ifthen"
  /\ BranchAdded(lastOpen.prev, lastOpen.before, lastOpen.BB)
  /\ InList(lastOpen.prev)

\* The block b came into being in this step, anonymous and empty, and is the
\* last element of the block list.
FreshPlaceholder(b) ==
  /\ b > Len(heap)
  /\ heap'[b].name = ""
  /\ heap'[b].insts = << >>
  /\ BasicBlockList'[Len(BasicBlockList')] = b

\* C17, as claimed. Whenever the cursor changes it is EmitBlock that set it.
CursorOnlyByEmitBlock ==
  [][InsertBlock' # InsertBlock => cursorBy' = "EmitBlock"]_vars

\* C17. The cursor changes only in the lowering of a label, an if, a goto
\* and a return. Label and if lowering move it by EmitBlock alone; goto and
\* return lowering always move it, by setting the insertion point directly
\* to a fresh anonymous block at the end of the block list, and the block
\* left behind stays in the block list and gains no branch to the new one.
CursorMoves ==
  /\ [][InsertBlock' # InsertBlock =>
          \/ /\ lastOp' \in {"label", "if", "ifElse", "ifEnd"}
             /\ cursorBy' = "EmitBlock"
             /\ lastOpen' # NoOpen
          \/ lastOp' \in {"goto", "return"}]_vars
  /\ [][lastOp' \in {"goto", "return"} =>
          /\ InsertBlock' # InsertBlock
          /\ cursorBy' = "SetInsertPoint"
          /\ FreshPlaceholder(InsertBlock')
          /\ InsertBlock \notin erased'
          /\ InList(InsertBlock)'
          /\ \A k \in 1 .. Len(heap'[InsertBlock].insts) :
               heap'[InsertBlock].insts[k].s1 # InsertBlock']_vars

\* A goto and a return, the arms of an if statement, have each set the
\* insertion point to a placeholder, and the if's continue block has since
\* been opened by EmitBlock.
CursorMovesWitness ==
  /\ gotoLog # {}
  /\ retLog # {}
  /\ Cardinality(phLog) >= 2
  /\ lastOp = "ifEnd"
  /\ cursorBy = "EmitBlock"

\* The instructions block b holds after the step extend those it held by
\* instructions that are no terminators.
GrewByPlainCode(b) ==
  /\ Len(heap'[b].insts) >= Len(heap[b].insts)
  /\ SubSeq(heap'[b].insts, 1, Len(heap[b].insts)) = heap[b].insts
  /\ \A k \in 1 .. Len(heap'[b].insts) :
       k > Len(heap[b].insts) => ~IsTerminator(heap'[b].insts[k])

\* C18. The steps of a compound statement itself (entering it, advancing to
\* the next child, leaving it) and the lowering of a null statement change no
\* block, nor the block list, the cursor or the label table, so that a
\* compound yields what its children yield one after another; the lowering
\* of an expression statement evaluates the expression once, creates no
\* block, adds no terminator and changes only the cursor block's code.
NoControlFlowOfOwn ==
  [][/\ lastOp' \in {"null", "compound", "compoundNext", "compoundEnd"} =>
          UNCHANGED << heap, BasicBlockList, InsertBlock, LabelMap, erased,
                       evals >>
     /\ lastOp' = "expr" =>
          /\ evals' = evals + 1
          /\ Len(heap') = Len(heap)
          /\ UNCHANGED << BasicBlockList, InsertBlock, LabelMap, erased >>
          /\ GrewByPlainCode(InsertBlock)
          /\ \A b \in 1 .. Len(heap) :
               b # InsertBlock => heap'[b] = heap[b]]_vars

\* A compound of an expression statement, whose code went to the entry
\* block, and a null statement has been lowered and left.
NoControlFlowWitness ==
  /\ lastOp = "compoundEnd"
  /\ visited = 3
  /\ evals = 1
  /\ diags = 0
  /\ Insts(1) # << >>
  /\ BasicBlockList = << 1 >>
  /\ InsertBlock = 1
  /\ Len(heap) = 1

\* C19, as claimed. Before and after the dispatcher lowers a statement the
\* cursor block is the last element of the block list and has no terminator,
\* every other block of the block list ends in exactly one terminator, and
\* EmitBlock meets a terminated block only in the lowering of an if.
StatementBoundaryInvariant ==
  /\ pc \in {"EmitStmt", "Return"} =>
       /\ BasicBlockList[Len(BasicBlockList)] = InsertBlock
       /\ Terminators(InsertBlock) = {}
       /\ \A b \in ListBlocks \ {InsertBlock} : EndsInOneTerminator(b)
  /\ (lastOpen # NoOpen /\ PrevTerminated) => lastOp \in {"if", "ifElse", "ifEnd"}

\* The label statement of L has been lowered.
LabelLowered(L) == \E b \in 1 .. Len(heap) : << L, b, "label" >> \in refs

\* C20, as claimed. When every label a goto names has its one label
\* statement in the tree, lowered or below an unimplemented statement, then
\* once the tree is lowered every successor of a block of the block list is
\* in the block list and no handle occurs twice in the block list; the block
\* of a label whose statement was never lowered is outside the block list.
ClosedCFG ==
  pc = "done" =>
    /\ (\A g \in gotoLog : LabelLowered(g.label) \/ g.label \in hidden) =>
         /\ \A b \in ListBlocks : Successors(b) \ {NoBB} \subseteq ListBlocks
         /\ Cardinality(ListBlocks) = Len(BasicBlockList)
    /\ \A L \in Labels :
         (LabelMap[L] # NoBB /\ ~LabelLowered(L)) => ~InList(LabelMap[L])

====
